---- MODULE Spec2Model ----
(***************************************************************************)
(* Model of the RSS parsing pipeline (rss_parse/parse/rss_parser.py) and   *)
(* of the HistoryDict exercise (AleksandraKhorosheva/Task2.py).            *)
(*                                                                         *)
(* Python values are tagged records: None, strings (sequences of tokens),  *)
(* timestamps, mappings (functions over their keys), lists, and raised     *)
(* exceptions.                                                             *)
(***************************************************************************)
EXTENDS Integers, Sequences, FiniteSets, TLC

VARIABLES
    adapter,      \* which RssParser subclass was constructed
    mc,           \* self._mc: the message consumer given at construction
    source,       \* RssUrlParser.__source
    fetch,        \* what requests.get does for the source
    file,         \* RssJsonParser: the file under __file_name, or NoFile
    xml_feed,     \* RssXmlParser.__xml_feed, as xmltodict decodes it
    pc,           \* position of the running parse call
    messages,     \* what the supplied consumer has received
    rss_feed_dict,\* parse: the value under the root key
    rss_items_raw,\* parse_items: the value iterated by the for loop
    idx,          \* parse_items: position of the for loop
    res,          \* parse_items: accepted items so far
    http_gets,    \* the requests.get calls made so far
    xml_result,   \* what the inner RssXmlParser.parse returned
    result,       \* what the outer parse call returned or raised
    image_node,   \* parse_image called on its own: the item node
    image_url,    \* parse_image called on its own: the returned value
    hd_count,     \* HistoryDict.count
    hd_dict,      \* HistoryDict.dict
    hd_history,   \* HistoryDict.history
    hd_calls,     \* the set_value calls made so far, in call order
    hd_returned   \* what the latest get_history call returned

vars == <<adapter, mc, source, fetch, file, xml_feed, pc, messages,
          rss_feed_dict, rss_items_raw, idx, res, http_gets, xml_result, result,
          image_node, image_url, hd_count, hd_dict, hd_history, hd_calls,
          hd_returned>>

rssVars == <<adapter, mc, source, fetch, file, xml_feed, pc, messages,
             rss_feed_dict, rss_items_raw, idx, res, http_gets, xml_result, result>>
imageVars == <<image_node, image_url>>
hdVars == <<hd_count, hd_dict, hd_history, hd_calls, hd_returned>>

(***************************************************************************)
(* Bounds of the model.                                                    *)
(***************************************************************************)
MaxItems == 3
MaxCalls == 4
MaxCount == 2

(***************************************************************************)
(* Python values.                                                          *)
(***************************************************************************)
None == [t |-> "none"]
Str(s) == [t |-> "str", s |-> s]
Timestamp(v) == [t |-> "ts", v |-> v]
Map(m) == [t |-> "map", m |-> m]
List(l) == [t |-> "list", l |-> l]
Exc(kind, msg) == [t |-> "exc", exc |-> kind, msg |-> msg]
EmptyMap == Map(<<>>)

TypeName(x) ==
    CASE x.t = "none" -> "NoneType"
      [] x.t = "str" -> "str"
      [] x.t = "map" -> "dict"
      [] x.t = "list" -> "list"
      [] OTHER -> "object"

\* Python truthiness, as `not x` and `a and b` use it.
Truthy(x) ==
    CASE x.t = "none" -> FALSE
      [] x.t = "str" -> x.s # <<>>
      [] x.t = "map" -> DOMAIN x.m # {}
      [] x.t = "list" -> x.l # <<>>
      [] OTHER -> TRUE

\* x.get(k, d)
Get(x, k, d) ==
    IF x.t = "map"
    THEN IF k \in DOMAIN x.m THEN x.m[k] ELSE d
    ELSE Exc("AttributeError", <<TypeName(x), "get">>)

\* x[k] with a string key
Subscript(x, k) ==
    IF x.t = "map"
    THEN IF k \in DOMAIN x.m THEN x.m[k] ELSE Exc("KeyError", <<k>>)
    ELSE Exc("TypeError", <<TypeName(x), "subscript">>)

\* s.startswith(p)
StartsWith(s, p) ==
    /\ Len(s) >= Len(p)
    /\ SubSeq(s, 1, Len(p)) = p

(***************************************************************************)
(* Keys of the decoded tree (rss_parse.parse.rss_keys).                    *)
(***************************************************************************)
RSS_ROOT == "rss"
RSS_CHANNEL == "channel"
RSS_ITEMS == "item"
RSS_ITEM_TITLE == "title"
RSS_ITEM_DESCRIPTION == "description"
RSS_ITEM_PUB_DATE == "pubDate"
RSS_ITEM_LINK == "link"
RSS_IMAGE_ROOT == "image"
RSS_IMAGE_ROOT_MEDIA_CONTENT == "media:content"
RSS_IMAGE_ROOT_MEDIA_THUMBNAIL == "media:thumbnail"
RSS_IMAGE_ROOT_ENCLOSURE == "enclosure"
RSS_IMAGE_URL_ATTR == "@url"

(***************************************************************************)
(* Sanitizer (rss_parse.utils.parsing_utils).  A string is a sequence of   *)
(* tokens; " " is whitespace and "<" stands for a markup or noise token.   *)
(***************************************************************************)
RECURSIVE TrimLeft(_)
TrimLeft(s) ==
    IF s # <<>> /\ Head(s) = " " THEN TrimLeft(Tail(s)) ELSE s

RECURSIVE TrimRight(_)
TrimRight(s) ==
    IF s # <<>> /\ s[Len(s)] = " " THEN TrimRight(SubSeq(s, 1, Len(s) - 1)) ELSE s

IsText(c) == c # "<"

sanitize_text(raw) ==
    IF raw.t = "none" THEN None
    ELSE Str(TrimRight(TrimLeft(SelectSeq(raw.s, IsText))))

DATE_1 == <<"Mon, 01 Jan 2024 00:00:00 GMT">>
DATE_2 == <<"Tue, 02 Jan 2024 12:30:00 GMT">>

to_date(raw) ==
    CASE raw.t = "none" -> None
      [] raw.t = "str" /\ raw.s = DATE_1 -> Timestamp(1704067200)
      [] raw.t = "str" /\ raw.s = DATE_2 -> Timestamp(1704198600)
      [] OTHER -> None

(***************************************************************************)
(* Item Extractor.                                                         *)
(***************************************************************************)
RssItem(title, description, publication_date, link, img) ==
    [t |-> "item", title |-> title, description |-> description,
     publication_date |-> publication_date, link |-> link,
     image_url |-> img, source |-> None]

\* line 96
ImageDirect(rss_item_dict) ==
    Get(rss_item_dict, RSS_IMAGE_ROOT, None)

\* rss_item_dict.get(key, {}).get(RSS_IMAGE_URL_ATTR, None)
SubObjectUrl(rss_item_dict, key) ==
    LET sub == Get(rss_item_dict, key, EmptyMap)
    IN  IF sub.t = "exc" THEN sub ELSE Get(sub, RSS_IMAGE_URL_ATTR, None)

\* lines 97-98
ImageMediaContent(rss_item_dict, url) ==
    IF url.t # "exc" /\ ~Truthy(url)
    THEN SubObjectUrl(rss_item_dict, RSS_IMAGE_ROOT_MEDIA_CONTENT)
    ELSE url

\* lines 99-100
ImageMediaThumbnail(rss_item_dict, url) ==
    IF url.t # "exc" /\ ~Truthy(url)
    THEN SubObjectUrl(rss_item_dict, RSS_IMAGE_ROOT_MEDIA_THUMBNAIL)
    ELSE url

\* lines 101-104 without the test of the declared type
ImageEnclosureAnyType(rss_item_dict, url) ==
    IF url.t # "exc" /\ ~Truthy(url)
    THEN LET enclosure == Get(rss_item_dict, RSS_IMAGE_ROOT_ENCLOSURE, EmptyMap)
         IN  IF enclosure.t = "exc" THEN enclosure
             ELSE Get(enclosure, RSS_IMAGE_URL_ATTR, None)
    ELSE url

\* lines 101-104: without an image type the value found so far is kept
ImageEnclosure(rss_item_dict, url) ==
    IF url.t # "exc" /\ ~Truthy(url)
    THEN LET enclosure == Get(rss_item_dict, RSS_IMAGE_ROOT_ENCLOSURE, EmptyMap)
             type == Get(enclosure, "@type", Str(<<>>))
         IN  IF enclosure.t = "exc" THEN enclosure
             ELSE IF type.t # "str"
                  THEN Exc("AttributeError", <<TypeName(type), "startswith">>)
             ELSE IF StartsWith(type.s, <<"image/">>)
                  THEN Get(enclosure, RSS_IMAGE_URL_ATTR, None)
                  ELSE url
    ELSE url

parse_image(rss_item_dict) ==
    ImageEnclosure(rss_item_dict,
        ImageMediaThumbnail(rss_item_dict,
            ImageMediaContent(rss_item_dict,
                ImageDirect(rss_item_dict))))

parse_item(rss_item_dict) ==
    LET title == Get(rss_item_dict, RSS_ITEM_TITLE, None)
        description == Get(rss_item_dict, RSS_ITEM_DESCRIPTION, None)
        pub == Get(rss_item_dict, RSS_ITEM_PUB_DATE, None)
        link == Get(rss_item_dict, RSS_ITEM_LINK, None)
        img == parse_image(rss_item_dict)
    IN  IF title.t = "exc" THEN title
        ELSE IF img.t = "exc" THEN img
        ELSE RssItem(sanitize_text(title), description, to_date(pub), link, img)

\* line 108 with the link left out of the conjunction
validate_correctness_no_link(item) ==
    Truthy(item.title) /\ Truthy(item.publication_date)

validate_correctness(item) ==
    Truthy(item.title) /\ Truthy(item.publication_date) /\ Truthy(item.link)

(***************************************************************************)
(* Construction of decoded trees.                                          *)
(***************************************************************************)
Absent == [t |-> "absent"]
Pending == [t |-> "pending"]

\* one key of a mapping, or nothing when the element or attribute is absent
Field(k, v) == IF v = Absent THEN <<>> ELSE k :> v

(***************************************************************************)
(* parse_image on its own: the item node is drawn from every combination   *)
(* of the four image locations.                                            *)
(***************************************************************************)
DirectImages == {Absent, None, Str(<<>>), Str(<<"I">>)}

MediaObjects(url) ==
    {Absent, EmptyMap,
     Map("@medium" :> Str(<<"image">>)),
     Map(RSS_IMAGE_URL_ATTR :> Str(<<>>)),
     Map(RSS_IMAGE_URL_ATTR :> Str(<<url>>))}

Enclosures ==
    {Absent, EmptyMap,
     Map(RSS_IMAGE_URL_ATTR :> Str(<<"E">>)),
     Map("@type" :> Str(<<"text/", "html">>) @@ RSS_IMAGE_URL_ATTR :> Str(<<"E">>)),
     Map("@type" :> Str(<<"image">>) @@ RSS_IMAGE_URL_ATTR :> Str(<<"E">>)),
     Map("@type" :> Str(<<"image/", "jpeg">>) @@ RSS_IMAGE_URL_ATTR :> Str(<<"E">>)),
     Map("@type" :> Str(<<"image/", "jpeg">>) @@ RSS_IMAGE_URL_ATTR :> Str(<<>>)),
     Map("@type" :> Str(<<"image/", "png">>))}

ImageNodes ==
    {Map(Field(RSS_IMAGE_ROOT, d) @@ Field(RSS_IMAGE_ROOT_MEDIA_CONTENT, c)
         @@ Field(RSS_IMAGE_ROOT_MEDIA_THUMBNAIL, h)
         @@ Field(RSS_IMAGE_ROOT_ENCLOSURE, e)) :
        d \in DirectImages, c \in MediaObjects("C"),
        h \in MediaObjects("H"), e \in Enclosures}

IdleRss ==
    /\ adapter = "none" /\ mc = None /\ source = None /\ fetch = None
    /\ file = None /\ xml_feed = None /\ pc = "idle" /\ messages = <<>>
    /\ rss_feed_dict = None /\ rss_items_raw = None /\ idx = 0 /\ res = <<>>
    /\ http_gets = <<>> /\ xml_result = None /\ result = None

IdleImage == image_node = None /\ image_url = Pending

IdleHd ==
    /\ hd_count = 0 /\ hd_dict = <<>> /\ hd_history = <<>> /\ hd_calls = <<>>
    /\ hd_returned = Pending

ImageInit ==
    /\ IdleRss /\ IdleHd
    /\ image_node \in ImageNodes
    /\ image_url = Pending

ParseImageCall ==
    /\ image_url = Pending
    /\ image_url' = parse_image(image_node)
    /\ UNCHANGED <<image_node, rssVars, hdVars>>

ImageNext == ParseImageCall

SpecImage == ImageInit /\ [][ImageNext]_vars

(***************************************************************************)
(* Inputs of the three source adapters.                                    *)
(***************************************************************************)
SINK == [t |-> "sink"]

\* a complete item, and a second one that differs in every field
NodeA ==
    RSS_ITEM_TITLE :> Str(<<"T">>) @@ RSS_ITEM_PUB_DATE :> Str(DATE_1)
    @@ RSS_ITEM_LINK :> Str(<<"L">>)

NodeB ==
    RSS_ITEM_TITLE :> Str(<<" ", "U", "<">>) @@ RSS_ITEM_PUB_DATE :> Str(DATE_2)
    @@ RSS_ITEM_LINK :> Str(<<"M">>) @@ RSS_ITEM_DESCRIPTION :> Str(<<"D">>)
    @@ RSS_IMAGE_ROOT_ENCLOSURE :>
         Map("@type" :> Str(<<"image/", "jpeg">>) @@ RSS_IMAGE_URL_ATTR :> Str(<<"E">>))

\* an item element with none of the fields the parser reads
NodeBare == "guid" :> Str(<<"G">>)

\* every combination of present and absent title, pubDate and link, a title
\* of markup only, a pubDate that is no date, an empty link element, and NodeB
ItemNodes ==
    ({Map(Field(RSS_ITEM_TITLE, t) @@ Field(RSS_ITEM_PUB_DATE, d)
          @@ Field(RSS_ITEM_LINK, l)) :
         t \in {Absent, Str(<<"T">>)},
         d \in {Absent, Str(DATE_1)},
         l \in {Absent, Str(<<"L">>)}} \ {EmptyMap})
    \cup {Map(NodeBare), Map(NodeB),
          Map([NodeA EXCEPT ![RSS_ITEM_TITLE] = Str(<<"<">>)]),
          Map([NodeA EXCEPT ![RSS_ITEM_PUB_DATE] = Str(<<"yesterday">>)]),
          Map([NodeA EXCEPT ![RSS_ITEM_LINK] = None])}

ItemLists == UNION {[1..n -> ItemNodes] : n \in 2..MaxItems}

\* what `item` decodes to: a list for repeated elements, the lone node otherwise
ItemValues ==
    {List(l) : l \in ItemLists} \cup ItemNodes \cup {None}

Channels ==
    {None, Map("title" :> Str(<<"news">>))}
    \cup {Map("title" :> Str(<<"news">>) @@ RSS_ITEMS :> v) : v \in ItemValues}

Roots ==
    {None, Map("@version" :> Str(<<"2.0">>))}
    \cup {Map(RSS_CHANNEL :> c) : c \in Channels}

\* xmltodict.parse(xml_feed): the decoded document, or the raised ExpatError
XmlFeeds ==
    {Exc("ExpatError", <<"syntax error">>), Map("feed" :> None)}
    \cup {Map(RSS_ROOT :> r) : r \in Roots}

Response(status, text) == [t |-> "response", status_code |-> status, text |-> text]

Sources ==
    {Str(<<"https://feed.example/rss">>), Str(<<"not a url">>),
     Str(<<"ftp://feed.example/rss">>), Str(<<"http://">>)}

\* what requests.get(source) does
FetchOutcomes(src) ==
    CASE src = Str(<<"not a url">>) -> {Exc("MissingSchema", <<>>)}
      [] src = Str(<<"ftp://feed.example/rss">>) -> {Exc("InvalidSchema", <<>>)}
      [] src = Str(<<"http://">>) -> {Exc("InvalidURL", <<>>)}
      [] OTHER -> {Exc("ConnectionError", <<>>), Response(404, None), Response(500, None)}
                  \cup {Response(200, x) : x \in XmlFeeds}

NoFile == [t |-> "nofile"]
File(text) == [t |-> "file", text |-> text]

Feed(items) == [t |-> "feed", rss_items |-> items]

StoredItem(src) ==
    [RssItem(Str(<<"T">>), None, Timestamp(1704067200), Str(<<"L">>), None)
        EXCEPT !.source = src]

\* a snapshot file holds a serialized feed
Files ==
    {NoFile, File(<<>>), File(<<StoredItem(None)>>),
     File(<<StoredItem(Str(<<"https://feed.example/rss">>)), StoredItem(None)>>)}

\* RSS_FEED_JSON_MAPPER.from_json
from_json(rss_json) == Feed(rss_json)

(***************************************************************************)
(* Messages.                                                               *)
(***************************************************************************)
MSG_PARSING == <<"Parsing RSS Feed by elements">>
MSG_ITEMS == <<"Parsing items info">>
MSG_FINISHED == <<"Parsing finished">>
MSG_SKIPPED == <<"Item skipped because it is invalid (required fields are absent)">>
MSG_REACHING(src) == <<"Reaching out to ", src>>
MSG_URL_ERROR == <<"Encountered an error during reading RSS Feed from URL">>
MSG_UNABLE == <<"Unable to connect">>

\* self._mc.add_message(m) on the object the constructor stored
NoAddMessage == Exc("AttributeError", <<"NoneType", "add_message">>)

(***************************************************************************)
(* RssXmlParser.                                                           *)
(***************************************************************************)
ParsingException(msg) == Exc("ParsingException", msg)

\* lines 64-67: xmltodict.parse(xml_feed)[RSS_ROOT] inside the try
DecodeRoot(xml) ==
    IF xml.t = "exc"
    THEN ParsingException(<<"Source doesn't contain a valid RSS Feed.">>)
    ELSE LET root == Subscript(xml, RSS_ROOT)
         IN  IF root.t = "exc" /\ root.exc = "KeyError"
             THEN ParsingException(<<"Source doesn't contain a valid RSS Feed.">>)
             ELSE root

\* line 76: rss_feed_dict[RSS_CHANNEL][RSS_ITEMS]
ChannelItems(feed_dict) ==
    LET channel == Subscript(feed_dict, RSS_CHANNEL)
    IN  IF channel.t = "exc" THEN channel ELSE Subscript(channel, RSS_ITEMS)

\* the keys of a mapping as the for loop meets them; every order gives
\* strings, which is all the loop body depends on
RECURSIVE KeySeq(_)
KeySeq(S) ==
    IF S = {} THEN <<>>
    ELSE LET k == CHOOSE x \in S : TRUE
         IN  <<Str(<<k>>)>> \o KeySeq(S \ {k})

\* line 78: whether `for rss_item_dict in rss_items_raw` can iterate
Iterable(raw) == raw.t \in {"list", "map", "str"}

NotIterable(raw) == Exc("TypeError", <<TypeName(raw), "iterable">>)

\* line 78: what the for loop iterates
Iter(raw) ==
    CASE raw.t = "list" -> raw.l
      [] raw.t = "map" -> KeySeq(DOMAIN raw.m)
      [] raw.t = "str" -> [i \in 1..Len(raw.s) |-> Str(<<raw.s[i]>>)]

\* lines 80-83 with the message emitted outside the else branch
LoopMessagesEvery(item) == <<MSG_SKIPPED>>

\* lines 80-83: the messages one iteration of the loop emits
LoopMessages(item) ==
    IF validate_correctness(item) THEN <<>> ELSE <<MSG_SKIPPED>>

Raise(e) ==
    /\ result' = e
    /\ pc' = "done"

Return(v) ==
    /\ result' = v
    /\ pc' = "done"

\* parse, lines 63-67
XmlParseBegin ==
    /\ pc = "xml_start"
    /\ IF mc = None
       THEN /\ Raise(NoAddMessage)
            /\ UNCHANGED <<messages, rss_feed_dict>>
       ELSE /\ messages' = Append(messages, MSG_PARSING)
            /\ LET root == DecodeRoot(xml_feed)
               IN  IF root.t = "exc"
                   THEN Raise(root) /\ UNCHANGED rss_feed_dict
                   ELSE /\ rss_feed_dict' = root
                        /\ pc' = "xml_items"
                        /\ UNCHANGED result
    /\ UNCHANGED <<adapter, mc, source, fetch, file, xml_feed, rss_items_raw,
                   idx, res, http_gets, xml_result, imageVars, hdVars>>

\* parse line 69, parse_items lines 76-78 up to the first iteration
XmlParseItemsBegin ==
    /\ pc = "xml_items"
    /\ messages' = Append(messages, MSG_ITEMS)
    /\ LET raw == ChannelItems(rss_feed_dict)
       IN  IF raw.t = "exc"
           THEN Raise(raw) /\ UNCHANGED <<rss_items_raw, idx, res>>
           ELSE /\ rss_items_raw' = raw
                /\ res' = <<>>
                /\ idx' = 0
                /\ IF Iterable(raw)
                   THEN pc' = "xml_loop" /\ UNCHANGED result
                   ELSE Raise(NotIterable(raw))
    /\ UNCHANGED <<adapter, mc, source, fetch, file, xml_feed, rss_feed_dict,
                   http_gets, xml_result, imageVars, hdVars>>

\* parse_items lines 78-83: one iteration of the loop
XmlParseItemsStep ==
    /\ pc = "xml_loop"
    /\ idx < Len(Iter(rss_items_raw))
    /\ LET item == parse_item(Iter(rss_items_raw)[idx + 1])
       IN  IF item.t = "exc"
           THEN Raise(item) /\ UNCHANGED <<idx, res, messages>>
           ELSE /\ idx' = idx + 1
                /\ res' = IF validate_correctness(item) THEN Append(res, item) ELSE res
                /\ messages' = messages \o LoopMessages(item)
                /\ UNCHANGED <<pc, result>>
    /\ UNCHANGED <<adapter, mc, source, fetch, file, xml_feed, rss_feed_dict,
                   rss_items_raw, http_gets, xml_result, imageVars, hdVars>>

\* parse_items line 84, parse lines 72-73
XmlParseFinish ==
    /\ pc = "xml_loop"
    /\ idx = Len(Iter(rss_items_raw))
    /\ messages' = Append(messages, MSG_FINISHED)
    /\ xml_result' = Feed(res)
    /\ IF adapter = "url"
       THEN pc' = "url_stamp" /\ UNCHANGED result
       ELSE Return(Feed(res))
    /\ UNCHANGED <<adapter, mc, source, fetch, file, xml_feed, rss_feed_dict,
                   rss_items_raw, idx, res, http_gets, imageVars, hdVars>>

(***************************************************************************)
(* RssUrlParser.                                                           *)
(***************************************************************************)
NoError == [t |-> "noerror"]

\* lines 125-133 with MissingSchema left out of the first except clause
FetchErrorNarrow(outcome, src) ==
    IF outcome.t = "exc" /\ outcome.exc \in {"InvalidSchema", "InvalidURL"}
    THEN [t |-> "error", message |-> MSG_URL_ERROR,
          exc |-> Exc("ParsingException", <<"Invalid source URL: ", src>>)]
    ELSE IF outcome.t = "exc" \/ outcome.status_code # 200
    THEN [t |-> "error", message |-> MSG_UNABLE,
          exc |-> Exc("ParsingException", <<"Unable to connect to ", src>>)]
    ELSE NoError

\* lines 125-133: the except clause a fetch outcome ends in, with the message
\* it emits and the exception it raises
FetchError(outcome, src) ==
    IF outcome.t = "exc" /\ outcome.exc \in {"InvalidSchema", "InvalidURL", "MissingSchema"}
    THEN [t |-> "error", message |-> MSG_URL_ERROR,
          exc |-> ParsingException(<<"Invalid source URL: ", src>>)]
    ELSE IF outcome.t = "exc" \/ outcome.status_code # 200
    THEN [t |-> "error", message |-> MSG_UNABLE,
          exc |-> ParsingException(<<"Unable to connect to ", src>>)]
    ELSE NoError

\* lines 138-139 with the loop stopping one item early
StampSourceButLast(items, src) ==
    [i \in 1..Len(items) |->
        IF i < Len(items) THEN [items[i] EXCEPT !.source = src] ELSE items[i]]

\* lines 138-139
StampSource(items, src) ==
    [i \in 1..Len(items) |-> [items[i] EXCEPT !.source = src]]

\* parse, lines 122-135
UrlParseFetch ==
    /\ pc = "url_start"
    /\ IF mc = None
       THEN \* add_message raises inside the try and again inside the bare except
            /\ Raise(NoAddMessage)
            /\ UNCHANGED <<messages, http_gets, xml_feed>>
       ELSE /\ http_gets' = Append(http_gets, source)
            /\ LET err == FetchError(fetch, source)
               IN  IF err.t = "error"
                   THEN /\ messages' = messages \o <<MSG_REACHING(source), err.message>>
                        /\ Raise(err.exc)
                        /\ UNCHANGED xml_feed
                   ELSE /\ messages' = Append(messages, MSG_REACHING(source))
                        /\ xml_feed' = fetch.text
                        /\ pc' = "xml_start"
                        /\ UNCHANGED result
    /\ UNCHANGED <<adapter, mc, source, fetch, file, rss_feed_dict, rss_items_raw,
                   idx, res, xml_result, imageVars, hdVars>>

\* parse, lines 137-141
UrlParseStamp ==
    /\ pc = "url_stamp"
    /\ Return(Feed(StampSource(xml_result.rss_items, source)))
    /\ UNCHANGED <<adapter, mc, source, fetch, file, xml_feed, messages,
                   rss_feed_dict, rss_items_raw, idx, res, http_gets, xml_result,
                   imageVars, hdVars>>

(***************************************************************************)
(* RssJsonParser.                                                          *)
(***************************************************************************)
\* lines 44-48 without the os.path.exists test: open() raises
JsonReadNoCheck(f) ==
    IF f.t = "nofile" THEN Exc("FileNotFoundError", <<>>) ELSE from_json(f.text)

\* lines 44-48
JsonRead(f) ==
    IF f.t = "nofile" THEN Feed(<<>>) ELSE from_json(f.text)

JsonParse ==
    /\ pc = "json_start"
    /\ Return(JsonRead(file))
    /\ UNCHANGED <<adapter, mc, source, fetch, file, xml_feed, messages,
                   rss_feed_dict, rss_items_raw, idx, res, http_gets, xml_result,
                   imageVars, hdVars>>

(***************************************************************************)
(* One parse call of one freshly constructed adapter.                      *)
(***************************************************************************)
\* the mc argument of the three constructors: omitted, or a consumer
Consumers == {None, SINK}

Init ==
    /\ IdleImage /\ IdleHd
    /\ mc \in Consumers
    /\ messages = <<>> /\ rss_feed_dict = None /\ rss_items_raw = None
    /\ idx = 0 /\ res = <<>> /\ http_gets = <<>> /\ xml_result = None
    /\ result = None
    /\ \/ /\ adapter = "xml" /\ pc = "xml_start"
          /\ xml_feed \in XmlFeeds
          /\ source = None /\ fetch = None /\ file = None
       \/ /\ adapter = "url" /\ pc = "url_start"
          /\ source \in Sources
          /\ fetch \in FetchOutcomes(source)
          /\ xml_feed = None /\ file = None
       \/ /\ adapter = "json" /\ pc = "json_start"
          /\ file \in Files
          /\ xml_feed = None /\ source = None /\ fetch = None

Next ==
    \/ XmlParseBegin
    \/ XmlParseItemsBegin
    \/ XmlParseItemsStep
    \/ XmlParseFinish
    \/ UrlParseFetch
    \/ UrlParseStamp
    \/ JsonParse

Spec == Init /\ [][Next]_vars

(***************************************************************************)
(* HistoryDict (Task2.py).                                                 *)
(***************************************************************************)
DEFAULT_COUNT == 10

HdKeys == {"foo", "bar", "baz"}
HdValues == {42, 43}

Max(a, b) == IF a >= b THEN a ELSE b
Min(a, b) == IF a <= b THEN a ELSE b

\* lst[start:] as Python resolves a slice start: a negative start counts from
\* the end, and -0 is 0
SliceFrom(lst, start) ==
    LET from == IF start < 0 THEN Max(Len(lst) + start, 0) ELSE Min(start, Len(lst))
    IN  SubSeq(lst, from + 1, Len(lst))

\* line 28: self.history[-self.count:]
Truncate(history, count) == SliceFrom(history, 0 - count)

\* line 26: self.dict[key] = value
SetItem(d, key, value) ==
    [k \in DOMAIN d \cup {key} |-> IF k = key THEN value ELSE d[k]]

HdInit ==
    /\ IdleRss /\ IdleImage
    /\ hd_count \in (0..MaxCount) \cup {DEFAULT_COUNT}
    /\ hd_dict \in {<<>>, "foo" :> 42}
    /\ hd_history = <<>>
    /\ hd_calls = <<>>
    /\ hd_returned = Pending

set_value(key, value) ==
    /\ Len(hd_calls) < MaxCalls
    /\ hd_dict' = SetItem(hd_dict, key, value)
    /\ hd_history' = Truncate(Append(hd_history, key), hd_count)
    /\ hd_calls' = Append(hd_calls, [key |-> key, value |-> value])
    /\ hd_returned' = Pending
    /\ UNCHANGED <<hd_count, rssVars, imageVars>>

get_history ==
    /\ hd_returned = Pending
    /\ hd_returned' = List(hd_history)
    /\ UNCHANGED <<hd_count, hd_dict, hd_history, hd_calls, rssVars, imageVars>>

HdNext ==
    \/ \E key \in HdKeys, value \in HdValues : set_value(key, value)
    \/ get_history

SpecHistory == HdInit /\ [][HdNext]_vars

(***************************************************************************)
(* Properties.                                                             *)
(***************************************************************************)
NonEmpty(v) == v # None /\ v # Str(<<>>)

C1_IsValid(item) ==
    NonEmpty(item.title) /\ item.publication_date # None /\ NonEmpty(item.link)

\* the node misses a title, a link or a parsable pubDate
C1_Misses(node) ==
    \/ RSS_ITEM_TITLE \notin DOMAIN node.m
    \/ ~NonEmpty(sanitize_text(node.m[RSS_ITEM_TITLE]))
    \/ RSS_ITEM_LINK \notin DOMAIN node.m
    \/ ~NonEmpty(node.m[RSS_ITEM_LINK])
    \/ RSS_ITEM_PUB_DATE \notin DOMAIN node.m
    \/ to_date(node.m[RSS_ITEM_PUB_DATE]).t # "ts"

C1_Extracted(nodes) == [i \in 1..Len(nodes) |-> parse_item(nodes[i])]

C3_LacksStructure(xml) ==
    \/ xml.t = "exc"
    \/ RSS_ROOT \notin DOMAIN xml.m
    \/ xml.m[RSS_ROOT].t # "map"
    \/ RSS_CHANNEL \notin DOMAIN xml.m[RSS_ROOT].m
    \/ xml.m[RSS_ROOT].m[RSS_CHANNEL].t # "map"
    \/ RSS_ITEMS \notin DOMAIN xml.m[RSS_ROOT].m[RSS_CHANNEL].m

\* C3: a parse of a document that cannot be decoded or lacks the root key,
\* the channel or the item entry ends in ParsingException and in no other
\* error; a parse of any other document ends in a Feed.
C3_OnlyParsingException ==
    (pc = "done" /\ adapter = "xml" /\ mc # None) =>
        IF C3_LacksStructure(xml_feed)
        THEN result.t = "exc" /\ result.exc = "ParsingException"
        ELSE result.t = "feed"

\* C4: a parser constructed without a message consumer uses a no-op one, so
\* its parse never ends in the error of calling add_message on nothing and
\* ends as a Feed or a ParsingException like a parse with a consumer.
C4_NoSinkNeverRaises ==
    (pc = "done" /\ mc = None) =>
        /\ result # NoAddMessage
        /\ result.t = "feed" \/ (result.t = "exc" /\ result.exc = "ParsingException")

C5_LoneItem(xml) ==
    /\ ~C3_LacksStructure(xml)
    /\ xml.m[RSS_ROOT].m[RSS_CHANNEL].m[RSS_ITEMS].t = "map"

\* C5: when the item entry decodes as a lone item object, the parse treats
\* it as a one-element sequence; the lone item with title "T", link "L" and
\* a well-formed pubDate gives a Feed of that one item, with a null
\* description and a null image url.
C5_LoneItemNormalized ==
    (pc = "done" /\ adapter = "xml" /\ mc # None /\ C5_LoneItem(xml_feed)) =>
        LET node == xml_feed.m[RSS_ROOT].m[RSS_CHANNEL].m[RSS_ITEMS]
        IN  /\ result.t = "feed"
            /\ result.rss_items = SelectSeq(<<parse_item(node)>>, C1_IsValid)
            /\ node = Map(NodeA) =>
                 result.rss_items =
                    <<RssItem(Str(<<"T">>), None, Timestamp(1704067200),
                              Str(<<"L">>), None)>>

C6_InvalidSource(outcome) ==
    outcome.t = "exc" /\ outcome.exc \in {"InvalidSchema", "InvalidURL", "MissingSchema"}

C6_NoConnection(outcome) ==
    \/ outcome.t = "exc" /\ outcome.exc = "ConnectionError"
    \/ outcome.t = "response" /\ outcome.status_code # 200

\* C6: when the fetch fails, RssUrlParser.parse ends in a ParsingException
\* that names the source: "Invalid source URL" for an invalid scheme, an
\* invalid URL or a missing scheme, "Unable to connect" for a connection
\* failure or a status other than 200; the XML parser is never started and
\* no Feed is returned.
C6_FetchFailureIsParsingException ==
    (adapter = "url" /\ (C6_InvalidSource(fetch) \/ C6_NoConnection(fetch))) =>
        /\ pc \in {"url_start", "done"}
        /\ xml_feed = None /\ rss_feed_dict = None /\ rss_items_raw = None
        /\ xml_result = None
        /\ \A i \in 1..Len(messages) : messages[i] # MSG_PARSING
        /\ result.t # "feed"
        /\ (pc = "done" /\ http_gets # <<>>) =>
             /\ http_gets = <<source>>
             /\ C6_InvalidSource(fetch) =>
                  result = Exc("ParsingException", <<"Invalid source URL: ", source>>)
             /\ C6_NoConnection(fetch) =>
                  result = Exc("ParsingException", <<"Unable to connect to ", source>>)

\* the source "not a url" was fetched and the parse ended in the invalid
\* source error
C6_Witness ==
    /\ adapter = "url" /\ pc = "done"
    /\ source = Str(<<"not a url">>)
    /\ http_gets = <<source>>
    /\ result = Exc("ParsingException", <<"Invalid source URL: ", source>>)

\* C7: after a fetch with status 200 RssUrlParser.parse returns the Feed the
\* XML parser returned for the body, every item's source set to the source
\* string and no other field changed; no item built or returned by the XML
\* parser itself has a source.
C7_OnlySourceStamped ==
    /\ \A i \in 1..Len(res) : res[i].source = None
    /\ xml_result.t = "feed" =>
         \A i \in 1..Len(xml_result.rss_items) : xml_result.rss_items[i].source = None
    /\ (pc = "done" /\ adapter = "xml" /\ result.t = "feed") =>
         \A i \in 1..Len(result.rss_items) : result.rss_items[i].source = None
    /\ (pc = "done" /\ adapter = "url" /\ xml_result.t = "feed") =>
         /\ fetch.t = "response" /\ fetch.status_code = 200
         /\ result.t = "feed"
         /\ Len(result.rss_items) = Len(xml_result.rss_items)
         /\ \A i \in 1..Len(result.rss_items) :
               /\ result.rss_items[i].source = source
               /\ [result.rss_items[i] EXCEPT !.source = None] = xml_result.rss_items[i]
    /\ (pc = "done" /\ adapter = "url" /\ result.t = "feed") => xml_result.t = "feed"

\* a fetched feed of two accepted items, both stamped
C7_Witness ==
    /\ adapter = "url" /\ pc = "done"
    /\ result.t = "feed"
    /\ Len(result.rss_items) = 2
    /\ result.rss_items[1].title = Str(<<"U">>)
    /\ result.rss_items[2].title = Str(<<"T">>)
    /\ result.rss_items[2].source = source

\* C8: RssJsonParser.parse on a path that does not exist returns a Feed of
\* zero items and raises nothing, whatever consumer the parser was given;
\* nothing is extracted or validated and no message is sent.
C8_MissingFileIsEmptyFeed ==
    (adapter = "json" /\ file = NoFile) =>
        /\ pc \in {"json_start", "done"}
        /\ messages = <<>>
        /\ rss_feed_dict = None /\ rss_items_raw = None /\ res = <<>> /\ idx = 0
        /\ xml_result = None /\ http_gets = <<>>
        /\ pc = "done" => result = Feed(<<>>)

\* the parse of a missing file has returned, the parser having no consumer
C8_Witness ==
    /\ adapter = "json" /\ file = NoFile /\ mc = None
    /\ pc = "done" /\ result = Feed(<<>>)

C10_Skips(n) == [i \in 1..n |-> MSG_SKIPPED]

\* C10: in a parse of RssXmlParser with a consumer, the element-parsing
\* message is first, the item-parsing message second, then one skip message
\* per rejected item and none per accepted item, and the completion message
\* is last; a parse that fails with ParsingException on decoding has emitted
\* the element-parsing message only.
C10_MessageOrder ==
    (adapter = "xml" /\ mc = SINK) =>
        /\ pc = "xml_start" => messages = <<>>
        /\ pc = "xml_items" => messages = <<MSG_PARSING>>
        /\ pc = "xml_loop" =>
             messages = <<MSG_PARSING, MSG_ITEMS>> \o C10_Skips(idx - Len(res))
        /\ (pc = "done" /\ result.t = "feed") =>
             messages = <<MSG_PARSING, MSG_ITEMS>>
                        \o C10_Skips(Len(Iter(rss_items_raw)) - Len(result.rss_items))
                        \o <<MSG_FINISHED>>
        /\ (pc = "done" /\ result.t = "exc" /\ result.exc = "ParsingException") =>
             messages = <<MSG_PARSING>>

\* a finished parse of three items, two of them rejected
C10_Witness ==
    /\ adapter = "xml" /\ mc = SINK /\ pc = "done"
    /\ result.t = "feed"
    /\ Len(result.rss_items) = 1
    /\ messages = <<MSG_PARSING, MSG_ITEMS, MSG_SKIPPED, MSG_SKIPPED, MSG_FINISHED>>

C2_Value(node, key) ==
    IF key \in DOMAIN node.m THEN node.m[key] ELSE None

C2_SubUrl(node, key) ==
    IF key \in DOMAIN node.m /\ RSS_IMAGE_URL_ATTR \in DOMAIN node.m[key].m
    THEN node.m[key].m[RSS_IMAGE_URL_ATTR]
    ELSE None

C2_ImageType(node) ==
    /\ RSS_IMAGE_ROOT_ENCLOSURE \in DOMAIN node.m
    /\ "@type" \in DOMAIN node.m[RSS_IMAGE_ROOT_ENCLOSURE].m
    /\ StartsWith(node.m[RSS_IMAGE_ROOT_ENCLOSURE].m["@type"].s, <<"image/">>)

C2_Candidates(node) ==
    <<C2_Value(node, RSS_IMAGE_ROOT),
      C2_SubUrl(node, RSS_IMAGE_ROOT_MEDIA_CONTENT),
      C2_SubUrl(node, RSS_IMAGE_ROOT_MEDIA_THUMBNAIL),
      IF C2_ImageType(node) THEN C2_SubUrl(node, RSS_IMAGE_ROOT_ENCLOSURE) ELSE None>>

C2_ImageKeys ==
    {RSS_IMAGE_ROOT, RSS_IMAGE_ROOT_MEDIA_CONTENT, RSS_IMAGE_ROOT_MEDIA_THUMBNAIL,
     RSS_IMAGE_ROOT_ENCLOSURE}

C9_LatestKeys(calls, count) ==
    LET n == Len(calls)
        m == Min(n, count)
    IN  [i \in 1..m |-> calls[n - m + i].key]

C9_LatestValue(calls, key) ==
    LET last == CHOOSE i \in 1..Len(calls) :
                    /\ calls[i].key = key
                    /\ \A j \in (i + 1)..Len(calls) : calls[j].key # key
    IN  calls[last].value

\* C9: after n set_value calls the history is the keys of the latest
\* min(n, count) calls in call order, never more than count keys, get_history
\* returns it, and the dict maps every key set to the value of its latest
\* set_value; keys given at construction are not part of the history.
C9_HistoryIsLatestKeys ==
    /\ hd_history = C9_LatestKeys(hd_calls, hd_count)
    /\ Len(hd_history) <= hd_count
    /\ hd_returned # Pending => hd_returned = List(C9_LatestKeys(hd_calls, hd_count))
    /\ \A i \in 1..Len(hd_calls) :
          /\ hd_calls[i].key \in DOMAIN hd_dict
          /\ hd_dict[hd_calls[i].key] = C9_LatestValue(hd_calls, hd_calls[i].key)

====
